---- MODULE Spec2Model ----
(***************************************************************************)
(* A model of download.py: the Bilibili audio downloader.                  *)
(*                                                                         *)
(* Python values are modelled as follows.                                  *)
(*   str    a sequence of one-character strings, <<"c","i","d">>           *)
(*   None   the record [none |-> TRUE]                                     *)
(*   a dict an insertion-ordered sequence of <<key, value>> items          *)
(* A value whose Python type is not fixed (a dict value, a JSON value, a   *)
(* variable that may hold None) is a one-field record naming its type:     *)
(* [int |-> 80], [str |-> <<"B">>], [bool |-> TRUE], [bytes |-> <<1, 2>>], *)
(* [dict |-> <<items>>], [list |-> <<values>>], and for a JSON object      *)
(* [obj |-> r] with r a record of its members.                             *)
(***************************************************************************)
EXTENDS Integers, Sequences, FiniteSets, TLC

VARIABLES
    pc,         \* where the script is: "idle", "done", or the call waiting for its reply
    video_url,  \* the text of the input box when the button was pressed
    bvid,       \* extract_bvid(video_url)
    cid,        \* what get_cid returned
    img_key,    \* get_audio_url's local, None outside the call
    sub_key,    \* get_audio_url's local
    params,     \* get_audio_url's local: the mapping sent to playurl
    audio_url,  \* what get_audio_url returned
    audio_data, \* what download_audio returned
    attempt,    \* upload_to_fileio's loop variable, None outside the loop
    file_link,  \* what upload_to_fileio returned
    inflight,   \* the HTTP request sent and not yet answered, or None
    reply,      \* the answer that has arrived for it, or None
    sent,       \* the endpoints requested so far in this run, in order
    shown,      \* what Streamlit has displayed in this run, in order
    now,        \* the wall clock, in whole seconds
    signedAt,   \* history: the clock when this run's signature was made
    lastSign,   \* history: the previous get_audio_url call's signing
    handled,    \* history: the reply handled last in this run and its call
    fnA,        \* the arguments of a function called on its own: the first
                \* generate_wbi_sign call (SignSpec), upload_to_fileio (UploadSpec)
    fnB,        \* SignSpec: the arguments of the second generate_wbi_sign call
    outA,       \* how the call of fnA ended (None before that)
    outB        \* SignSpec: what the second call returned

fnVars == <<fnA, fnB, outA, outB>>

uiVars == <<pc, video_url, bvid, cid, img_key, sub_key, params, audio_url, audio_data,
            attempt, file_link, inflight, reply, sent, shown, now, signedAt, lastSign,
            handled>>

None == [none |-> TRUE]

(***************************************************************************)
(* Strings                                                                 *)
(***************************************************************************)

\* The printable ASCII characters in code point order, from 32 (space); the
\* grave accent (96), which no string of the model holds, is spelled out.
Ascii ==
    <<" ", "!", "\"", "#", "$", "%", "&", "'", "(", ")", "*", "+", ",", "-", ".", "/",
      "0", "1", "2", "3", "4", "5", "6", "7", "8", "9", ":", ";", "<", "=", ">", "?",
      "@", "A", "B", "C", "D", "E", "F", "G", "H", "I", "J", "K", "L", "M", "N", "O",
      "P", "Q", "R", "S", "T", "U", "V", "W", "X", "Y", "Z", "[", "\\", "]", "^", "_",
      "grave", "a", "b", "c", "d", "e", "f", "g", "h", "i", "j", "k", "l", "m", "n", "o",
      "p", "q", "r", "s", "t", "u", "v", "w", "x", "y", "z", "{", "|", "}", "~">>

\* ord(c): the code point of a character.
CodePoint ==
    [c \in {Ascii[i] : i \in 1..Len(Ascii)} |->
        31 + (CHOOSE i \in 1..Len(Ascii) : Ascii[i] = c)]

Ord(c) == CodePoint[c]

\* The TLA+ string that a str spells, for reading and for stating literals.
RECURSIVE Text(_)
Text(s) == IF s = <<>> THEN "" ELSE Head(s) \o Text(Tail(s))

\* a < b on two str: Python compares code point by code point, and a proper
\* prefix is smaller.
RECURSIVE StrLess(_, _)
StrLess(a, b) ==
    IF b = <<>> THEN FALSE
    ELSE IF a = <<>> THEN TRUE
    ELSE IF Head(a) # Head(b) THEN Ord(Head(a)) < Ord(Head(b))
    ELSE StrLess(Tail(a), Tail(b))

Digits == <<"0", "1", "2", "3", "4", "5", "6", "7", "8", "9">>

\* str(n) of an int: its decimal digits, with a sign when negative.
RECURSIVE IntToStr(_)
IntToStr(n) ==
    IF n < 0 THEN <<"-">> \o IntToStr(0 - n)
    ELSE IF n < 10 THEN <<Digits[n + 1]>>
    ELSE IntToStr(n \div 10) \o <<Digits[(n % 10) + 1]>>

\* sep.join(parts)
RECURSIVE StrJoin(_, _)
StrJoin(sep, parts) ==
    IF parts = <<>> THEN <<>>
    ELSE IF Len(parts) = 1 THEN parts[1]
    ELSE parts[1] \o sep \o StrJoin(sep, Tail(parts))

\* s.split(sep) for a one-character separator: the pieces between the
\* separators, empty pieces kept; never an empty list.
RECURSIVE StrSplit(_, _)
StrSplit(s, sep) ==
    IF \A i \in 1..Len(s) : s[i] # sep THEN <<s>>
    ELSE LET i == CHOOSE j \in 1..Len(s) :
                      s[j] = sep /\ \A k \in 1..(j - 1) : s[k] # sep
         IN  <<SubSeq(s, 1, i - 1)>> \o StrSplit(SubSeq(s, i + 1, Len(s)), sep)

\* s.encode(): the UTF-8 bytes; every character of the model is ASCII, one
\* byte each.
Encode(s) == [i \in 1..Len(s) |-> Ord(s[i])]

\* hashlib.md5(bytes).hexdigest(). The digest is not computed: it stands for
\* the bytes it was taken of, which is MD5 taken as collision-free.
MD5Hex(bytes) == [md5 |-> bytes]

(***************************************************************************)
(* Dict values and formatting                                              *)
(***************************************************************************)

IntV(n) == [int |-> n]
StrV(s) == [str |-> s]

IsInt(v) == DOMAIN v = {"int"}
IsStr(v) == DOMAIN v = {"str"}

\* format(v, ""), what an f-string does with {v}: str(v).
Format(v) == IF IsInt(v) THEN IntToStr(v.int) ELSE v.str

DictKeys(d) == [i \in 1..Len(d) |-> d[i][1]]

\* d[k] of a dict that has the key.
DictGet(d, k) == d[CHOOSE i \in 1..Len(d) : d[i][1] = k][2]

\* d[k] = v: an existing key keeps its place, a new key goes last.
DictSet(d, k, v) ==
    IF \E i \in 1..Len(d) : d[i][1] = k
    THEN [i \in 1..Len(d) |-> IF d[i][1] = k THEN <<k, v>> ELSE d[i]]
    ELSE Append(d, <<k, v>>)

\* The items in ascending order by ItemLess, found by stable insertion.
ItemLess(a, b) == StrLess(a[1], b[1])

RECURSIVE InsertItem(_, _)
InsertItem(x, s) ==
    IF s = <<>> THEN <<x>>
    ELSE IF ItemLess(x, Head(s)) THEN <<x>> \o s
    ELSE <<Head(s)>> \o InsertItem(x, Tail(s))

\* The items left in insertion order.
unsorted_items(items) == items

\* sorted(params.items()): the items in ascending order of the (key, value)
\* tuples. The keys of a dict are distinct, so the keys alone decide.
RECURSIVE sorted_items(_)
sorted_items(items) ==
    IF items = <<>> THEN <<>>
    ELSE InsertItem(items[Len(items)], sorted_items(SubSeq(items, 1, Len(items) - 1)))

\* dict(items): the items inserted one after the other.
RECURSIVE DictOf(_)
DictOf(items) ==
    IF items = <<>> THEN <<>>
    ELSE DictSet(DictOf(SubSeq(items, 1, Len(items) - 1)),
                 items[Len(items)][1], items[Len(items)][2])

(***************************************************************************)
(* generate_wbi_sign                                                       *)
(***************************************************************************)

\* A mix key cut to a fixed length, as the mixin key of other WBI clients is.
mix_key_truncated(img, sub) ==
    SubSeq(img \o sub, 1, IF Len(img \o sub) < 2 THEN Len(img \o sub) ELSE 2)

\* The two keys in the other order.
mix_key_swapped(img, sub) == sub \o img

\* mix_key = img_key + sub_key
mix_key(img, sub) == img \o sub

\* "&".join([f"{k}={v}" for k, v in ps.items()])
params_str(ps) ==
    StrJoin(<<"&">>, [i \in 1..Len(ps) |->
                          ps[i][1] \o <<"=">> \o Format(ps[i][2])])

\* sign_str = params_str + mix_key, of the re-sorted params
sign_str(ps, img, sub) ==
    params_str(DictOf(sorted_items(ps))) \o mix_key(img, sub)

\* A mix key kept at module level that grows with every call: the keys of
\* the call before stay in it.
generate_wbi_sign_accumulating(ps, img, sub) ==
    MD5Hex(Encode(sign_str(ps, img, sub)
                  \o (IF lastSign = None THEN <<>>
                      ELSE lastSign.img_key.str \o lastSign.sub_key.str)))

generate_wbi_sign(ps, img, sub) ==
    MD5Hex(Encode(sign_str(ps, img, sub)))

\* One call of a signer that sorts the dict it is given in place.
SignCallSortingInPlace(in) ==
    [w_rid |-> generate_wbi_sign(in.params, in.img_key, in.sub_key),
     hashed |-> sign_str(in.params, in.img_key, in.sub_key),
     params |-> DictOf(sorted_items(in.params))]

\* One call as the caller sees it: the value returned, the string that was
\* hashed, and the caller's mapping after the call (the function rebinds its
\* own local name params and never writes to the caller's dict).
SignCall(in) ==
    [w_rid |-> generate_wbi_sign(in.params, in.img_key, in.sub_key),
     hashed |-> sign_str(in.params, in.img_key, in.sub_key),
     params |-> in.params]

\* The seven base parameters in the order get_audio_url inserts them.
BaseParams(bvid_, cid_, wts) ==
    << <<<<"b", "v", "i", "d">>, bvid_>>,
       <<<<"c", "i", "d">>, cid_>>,
       <<<<"q", "n">>, IntV(80)>>,
       <<<<"f", "n", "v", "e", "r">>, IntV(0)>>,
       <<<<"f", "n", "v", "a", "l">>, IntV(4048)>>,
       <<<<"f", "o", "u", "r", "k">>, IntV(1)>>,
       <<<<"w", "t", "s">>, IntV(wts)>> >>

(***************************************************************************)
(* HTTP replies and JSON                                                   *)
(*                                                                         *)
(* What requests.get / requests.post comes back with is a reply: either    *)
(* [error |-> name], a transport failure raised as that                    *)
(* requests.exceptions.RequestException, or [status |-> n, body |-> b]     *)
(* with b = [json |-> v] for a body that parses as JSON, [text |-> t] for   *)
(* one that does not, or [content |-> bytes] for a media body.             *)
(* A JSON value v is None (null), [int |-> n], [str |-> s], [bool |-> b],   *)
(* [list |-> <<v, ...>>] or [obj |-> r], r a record of JSON values.         *)
(*                                                                         *)
(* The result of evaluating an expression or calling a function is         *)
(* [ret |-> value] or [raise |-> exception name].                          *)
(***************************************************************************)

Ret(v) == [ret |-> v]
Raise(e) == [raise |-> e]
Raised(r) == DOMAIN r = {"raise"}

IsObj(v) == DOMAIN v = {"obj"}
IsList(v) == DOMAIN v = {"list"}
IsBool(v) == DOMAIN v = {"bool"}

Obj(r) == [obj |-> r]

\* v.get(k): None for a key that is missing.
SubscriptOrNone(v, k) ==
    IF IsObj(v)
    THEN IF k \in DOMAIN v.obj THEN Ret(v.obj[k]) ELSE Ret(None)
    ELSE Raise("TypeError")

\* v[k] for a str key k.
Subscript(v, k) ==
    IF IsObj(v)
    THEN IF k \in DOMAIN v.obj THEN Ret(v.obj[k]) ELSE Raise("KeyError")
    ELSE Raise("TypeError")

\* v[i] for an int index i >= 0.
Index(v, i) ==
    IF IsList(v)
    THEN IF i < Len(v.list) THEN Ret(v.list[i + 1]) ELSE Raise("IndexError")
    ELSE IF IsObj(v) THEN Raise("KeyError")
    ELSE IF IsStr(v)
    THEN IF i < Len(v.str) THEN Ret(StrV(<<v.str[i + 1]>>)) ELSE Raise("IndexError")
    ELSE Raise("TypeError")

\* v[k1][k2]...: the subscripts of path applied from the left; the first
\* one that raises ends the evaluation. A step is a str key or [idx |-> i].
RECURSIVE SubscriptPath(_, _)
SubscriptPath(v, path) ==
    IF path = <<>> THEN Ret(v)
    ELSE LET step == IF DOMAIN Head(path) = {"idx"}
                     THEN Index(v, Head(path).idx)
                     ELSE Subscript(v, Head(path).key)
         IN  IF Raised(step) THEN step ELSE SubscriptPath(step.ret, Tail(path))

Key(k) == [key |-> k]
Idx(i) == [idx |-> i]

\* The test "is not None" in place of the truth value.
IsNotNone(v) == v # None

\* bool(v): None, 0, False and the empty str, bytes, list and dict are false.
Truthy(v) ==
    IF v = None THEN FALSE
    ELSE IF IsInt(v) THEN v.int # 0
    ELSE IF IsStr(v) THEN v.str # <<>>
    ELSE IF IsBool(v) THEN v.bool
    ELSE IF IsList(v) THEN v.list # <<>>
    ELSE IF IsObj(v) THEN DOMAIN v.obj # {}
    ELSE IF DOMAIN v = {"bytes"} THEN v.bytes # <<>>
    ELSE TRUE

IsError(response) == DOMAIN response = {"error"}

\* response.json(): the parsed body, or ValueError for a body that is no JSON.
ResponseJson(response) ==
    IF DOMAIN response.body = {"json"} THEN Ret(response.body.json) ELSE Raise("ValueError")

(***************************************************************************)
(* extract_bvid, get_cid, get_wbi_keys                                     *)
(***************************************************************************)

\* \w of the re module, on the ASCII characters: letters, digits, underscore.
IsWordChar(c) ==
    \/ Ord(c) \in Ord("0")..Ord("9")
    \/ Ord(c) \in Ord("A")..Ord("Z")
    \/ Ord(c) \in Ord("a")..Ord("z")
    \/ c = "_"

\* re.search(r'(BV[\w]+)', url): the leftmost place where "BV" and a word
\* character follow each other, and from there the longest run of word
\* characters; None when there is none.
extract_bvid(url) ==
    LET starts == {i \in 1..(Len(url) - 2) :
                      url[i] = "B" /\ url[i + 1] = "V" /\ IsWordChar(url[i + 2])}
    IN  IF starts = {} THEN None
        ELSE LET i == CHOOSE j \in starts : \A k \in starts : j <= k
                 last == CHOOSE e \in (i + 2)..Len(url) :
                             /\ \A k \in (i + 2)..e : IsWordChar(url[k])
                             /\ e = Len(url) \/ ~IsWordChar(url[e + 1])
             IN  StrV(SubSeq(url, i, last))

\* get_cid with a transport failure taken as "no cid".
get_cid_swallowing(response) ==
    IF IsError(response) THEN Ret(None)
    ELSE IF response.status = 200
    THEN LET json == ResponseJson(response)
         IN  IF Raised(json) THEN json
             ELSE SubscriptPath(json.ret, <<Key("data"), Key("cid")>>)
    ELSE Ret(None)

\* get_cid, from the response of the view endpoint on.
get_cid(response) ==
    IF IsError(response) THEN Raise(response.error)
    ELSE IF response.status = 200
    THEN LET json == ResponseJson(response)
         IN  IF Raised(json) THEN json
             ELSE SubscriptPath(json.ret, <<Key("data"), Key("cid")>>)
    ELSE Ret(None)

\* The key of the signing before, kept once there is one.
KeyOfUrlCached(url) ==
    IF lastSign # None THEN Ret(lastSign.img_key)
    ELSE IF ~IsStr(url) THEN Raise("AttributeError")
    ELSE LET parts == StrSplit(url.str, "/")
         IN  Ret(StrV(StrSplit(parts[Len(parts)], ".")[1]))

\* url.split("/")[-1].split(".")[0] of a str; AttributeError for a value
\* that has no split.
KeyOfUrl(url) ==
    IF ~IsStr(url) THEN Raise("AttributeError")
    ELSE LET parts == StrSplit(url.str, "/")
         IN  Ret(StrV(StrSplit(parts[Len(parts)], ".")[1]))

\* get_wbi_keys, from the response of the nav endpoint on: the pair
\* <<img, sub>>.
get_wbi_keys(response) ==
    IF IsError(response) THEN Raise(response.error)
    ELSE IF response.status = 200
    THEN LET json == ResponseJson(response)
             wbi_img == IF Raised(json) THEN json
                        ELSE SubscriptPath(json.ret, <<Key("data"), Key("wbi_img")>>)
             img_url == IF Raised(wbi_img) THEN wbi_img ELSE Subscript(wbi_img.ret, "img_url")
             img == IF Raised(img_url) THEN img_url ELSE KeyOfUrl(img_url.ret)
             sub_url == IF Raised(img) THEN img ELSE Subscript(wbi_img.ret, "sub_url")
             sub == IF Raised(sub_url) THEN sub_url ELSE KeyOfUrl(sub_url.ret)
         IN  IF Raised(sub) THEN sub ELSE Ret(<<img.ret, sub.ret>>)
    ELSE Ret(<<None, None>>)

(***************************************************************************)
(* get_audio_url and download_audio                                        *)
(***************************************************************************)

\* if not img_key and not sub_key
KeysBothMissing(img, sub) == ~Truthy(img) /\ ~Truthy(sub)

\* if not img_key or not sub_key
KeysMissing(img, sub) == ~Truthy(img) \/ ~Truthy(sub)

\* A timestamp taken once and kept for the later calls.
SampleClockCached == IF lastSign = None THEN now ELSE lastSign.wts.int

\* int(time.time())
SampleClock == now

\* w_rid entered empty first and signed with the rest.
SignedParamsSelfSigned(bvid_, cid_, wts, img, sub) ==
    LET base == DictSet(BaseParams(bvid_, cid_, wts), <<"w", "_", "r", "i", "d">>, StrV(<<>>))
    IN  DictSet(base, <<"w", "_", "r", "i", "d">>, generate_wbi_sign(base, img, sub))

\* params with params["w_rid"] = generate_wbi_sign(params, img_key, sub_key):
\* the right-hand side is evaluated on the seven base parameters, then the
\* entry is added.
SignedParams(bvid_, cid_, wts, img, sub) ==
    LET base == BaseParams(bvid_, cid_, wts)
    IN  DictSet(base, <<"w", "_", "r", "i", "d">>, generate_wbi_sign(base, img, sub))

\* get_audio_url, from the response of the playurl endpoint on.
get_audio_url_result(response) ==
    IF IsError(response) THEN Raise(response.error)
    ELSE IF response.status = 200
    THEN LET data == ResponseJson(response)
         IN  IF Raised(data) THEN data
             ELSE SubscriptPath(data.ret, <<Key("data"), Key("dash"), Key("audio"),
                                            Idx(0), Key("baseUrl")>>)
    ELSE Ret(None)

\* download_audio, from the response of the media server on.
download_audio(response) ==
    IF IsError(response) THEN Raise(response.error)
    ELSE IF response.status = 200 THEN Ret(response.body.content)
    ELSE Ret(None)

(***************************************************************************)
(* Requests, and what the servers may answer                               *)
(***************************************************************************)

\* requests.get(url, params=..., headers=...) and requests.post(...): a
\* timeout of None waits for the answer without limit.
Request(method, url, params_, headers, timeout) ==
    [method |-> method, url |-> url, params |-> params_, headers |-> headers,
     timeout |-> timeout]

\* A dict held by a variable or passed as params=.
DictV(d) == [dict |-> d]

\* headers={"User-Agent": "Mozilla/5.0"}
ShortAgent == [UserAgent |-> "Mozilla/5.0"]

\* headers={"User-Agent": "Mozilla/5.0 (Windows NT 10.0; ...", "Referer": referer}
LongAgent(referer) == [UserAgent |-> "Mozilla/5.0 (Windows NT 10.0; ", Referer |-> referer]

GetCidRequest(bvid_) ==
    Request("GET", "https://api.bilibili.com/x/web-interface/view?bvid=" \o Text(bvid_.str),
            None, ShortAgent, None)

GetWbiKeysRequest ==
    Request("GET", "https://api.bilibili.com/x/web-interface/nav", None, ShortAgent, None)

PlayurlRequest(params_, bvid_) ==
    Request("GET", "https://api.bilibili.com/x/player/wbi/playurl", DictV(params_),
            LongAgent("https://www.bilibili.com/video/" \o Text(bvid_.str)), None)

DownloadRequest(url, referer) ==
    Request("GET", Text(url.str), None, LongAgent(Text(referer)), None)

Json(status, v) == [status |-> status, body |-> [json |-> v]]
Html(status) == [status |-> status, body |-> [text |-> "<html>"]]

TransportErrors == {[error |-> "ConnectionError"]}

ViewReplies ==
    TransportErrors
    \cup {Html(200), Html(502),
          Json(200, Obj([code |-> IntV(0), data |-> Obj([cid |-> IntV(12)])])),
          Json(200, Obj([code |-> IntV(0), data |-> Obj([cid |-> IntV(7)])])),
          Json(200, Obj([code |-> IntV(0), data |-> Obj([cid |-> IntV(0)])])),
          Json(200, Obj([code |-> IntV(0), data |-> Obj([cid |-> None])])),
          Json(200, Obj([code |-> IntV(0), data |-> Obj([aid |-> IntV(3)])])),
          Json(200, Obj([code |-> IntV(0), data |-> None])),
          Json(200, Obj([code |-> IntV(-400), message |-> StrV(<<"e">>)])),
          Json(404, Obj([code |-> IntV(-404)]))}

\* img_url and sub_url values: the stems are "a", "ab" and "".
NavUrls ==
    {StrV(<<"/", "a", ".", "p">>),
     StrV(<<"h", ":", "/", "/", "i", "/", "w", "/", "a", "b", ".", "p", ".", "q">>),
     StrV(<<"w", "/", ".", "p">>)}

NavReplies ==
    TransportErrors
    \cup {Html(200), Html(502),
          Json(200, Obj([code |-> IntV(-101), data |-> Obj([isLogin |-> [bool |-> FALSE]])])),
          Json(200, Obj([code |-> IntV(0), data |-> None])),
          Json(200, Obj([code |-> IntV(-500)])),
          Json(200, Obj([code |-> IntV(0),
                         data |-> Obj([wbi_img |-> Obj([img_url |-> StrV(<<"/", "a", ".", "p">>)])])])),
          Json(200, Obj([code |-> IntV(0),
                         data |-> Obj([wbi_img |-> Obj([img_url |-> None, sub_url |-> None])])]))}
    \cup {Json(200, Obj([code |-> IntV(-101),
                         data |-> Obj([wbi_img |-> Obj([img_url |-> i, sub_url |-> u])])])) :
              i \in NavUrls, u \in NavUrls}

Dash(audio) == Obj([dash |-> Obj([audio |-> [list |-> audio]])])

AudioUrl == StrV(<<"h", ":", "/", "/", "c", "/", "a", ".", "m", "4", "s">>)

PlayurlReplies ==
    TransportErrors
    \cup {Html(200), Html(412),
          Json(200, Obj([code |-> IntV(0), data |-> Dash(<<Obj([baseUrl |-> AudioUrl])>>)])),
          Json(200, Obj([code |-> IntV(0), data |-> Dash(<<Obj([baseUrl |-> None])>>)])),
          Json(200, Obj([code |-> IntV(0), data |-> Dash(<<Obj([id |-> IntV(30280)])>>)])),
          Json(200, Obj([code |-> IntV(0), data |-> Dash(<<>>)])),
          Json(200, Obj([code |-> IntV(0), data |-> Obj([durl |-> [list |-> <<>>]])])),
          Json(200, Obj([code |-> IntV(0)])),
          Json(200, Obj([code |-> IntV(-403), message |-> StrV(<<"e">>)])),
          Json(200, Obj([code |-> IntV(-403), data |-> None])),
          Json(200, Obj([code |-> IntV(-403), data |-> Dash(<<Obj([baseUrl |-> AudioUrl])>>)]))}

Media(status, bytes) == [status |-> status, body |-> [content |-> [bytes |-> bytes]]]

DownloadReplies ==
    TransportErrors \cup {Media(200, <<1, 2>>), Media(200, <<>>), Media(403, <<60>>)}

(***************************************************************************)
(* upload_to_fileio                                                        *)
(***************************************************************************)

\* retry_count: int = 2
retry_count == 2

\* timeout=30
UploadTimeout == 30

Msg(kind, text) == [kind |-> kind, text |-> text]

FileIoPrefix ==
    <<"h", "t", "t", "p", "s", ":", "/", "/", "f", "i", "l", "e", ".", "i", "o", "/">>

\* s.startswith(prefix)
StartsWith(s, prefix) ==
    Len(s) >= Len(prefix) /\ SubSeq(s, 1, Len(prefix)) = prefix

\* d.get(k, default): AttributeError for a value that is no dict.
DictGetOr(v, k, default) ==
    IF ~IsObj(v) THEN Raise("AttributeError")
    ELSE IF k \in DOMAIN v.obj THEN Ret(v.obj[k]) ELSE Ret(default)

\* isinstance(v, int) alone.
IsAnyInt(v) == IsInt(v) \/ IsBool(v)

\* isinstance(v, int) and v > 0: a bool is an int, True is 1 and False 0.
IsPositiveInt(v) ==
    \/ IsInt(v) /\ v.int > 0
    \/ IsBool(v) /\ v.bool

\* The pre-request checks: the message of the check that fails, or None.
\* expires is None or a str; max_downloads is None or any value. The size
\* check reads len(audio_data) > 5 * 1024 ** 3, written here so that no
\* number exceeds 32 bits.
upload_validate(data, expires, max_downloads) ==
    IF ~Truthy(data) THEN Msg("error", "audio data is empty")
    ELSE IF (Len(data.bytes) - 1) \div (1024 * 1024 * 1024) >= 5
    THEN Msg("error", "file over 5GB")
    ELSE IF Truthy(expires)
            /\ ~(/\ Len(expires.str) > 1
                 /\ \A i \in 1..(Len(expires.str) - 1) : Ord(expires.str[i]) \in Ord("0")..Ord("9")
                 /\ expires.str[Len(expires.str)] \in {"y", "Q", "M", "w", "d", "h", "m", "s"})
    THEN Msg("error", "expires format invalid")
    ELSE IF max_downloads # None /\ ~IsPositiveInt(max_downloads)
    THEN Msg("error", "max_downloads must be a positive integer")
    ELSE None

\* The arguments of upload_to_fileio(audio_data), the others at their
\* defaults.
DefaultArgs(data) ==
    [audio_data |-> data, expires |-> None, max_downloads |-> None,
     retry_count |-> retry_count]

\* upload_to_fileio from its first line to its first requests.post: the
\* messages displayed, and whether a request is sent (post) or the function
\* returns None without one: a check failed, or range(retry_count + 1) is
\* empty and the loop is not entered.
upload_enter(args) ==
    LET invalid == upload_validate(args.audio_data, args.expires, args.max_downloads)
    IN  IF invalid # None THEN [msgs |-> <<invalid>>, post |-> FALSE]
        ELSE IF args.retry_count + 1 <= 0
        THEN [msgs |-> <<Msg("error", "upload finally failed")>>, post |-> FALSE]
        ELSE [msgs |-> <<Msg("info", "uploading")>>, post |-> TRUE]

UploadRequest ==
    Request("POST", "https://file.io", None,
            [UserAgent |-> "AudioUploader/1.0", Accept |-> "application/json"],
            IntV(UploadTimeout))

\* Every status of a client or server error.
AllErrorStatuses == {400, 413} \cup {429, 500, 502, 503, 504}

RetryStatuses == {429, 500, 502, 503, 504}

\* A pass that may be followed by another, were every pass to allow one.
RetryAlways(n, rc) == n <= rc

\* attempt < retry_count: pass n of range(retry_count + 1) is not the last.
RetryAllowed(n, rc) == n < rc

\* One pass of the loop body from the reply of requests.post on, at loop
\* index n with rc retries allowed: the messages displayed and how the pass
\* ends: "return" with the link, "retry" (the next pass), "break" (leave the
\* loop) or "raise" with an exception no handler of the function catches.
upload_attempt(response, n, rc) ==
    LET End(msgs, next, value) == [msgs |-> msgs, next |-> next, value |-> value]
        More(msgs, info, last) ==
            IF RetryAllowed(n, rc) THEN End(Append(msgs, Msg("info", info)), "retry", None)
            ELSE End(Append(msgs, Msg("error", last)), "break", None)
    IN  IF IsError(response)
        THEN More(<<Msg("error", "request exception")>>, "retry after network exception",
                  "retries exhausted, network exception")
        ELSE IF response.status = 200
        THEN LET json == ResponseJson(response)
             IN  IF Raised(json)
                 THEN More(<<Msg("error", "response is not JSON")>>,
                           "retry after server exception", "retries exhausted, no valid response")
                 ELSE LET success == DictGetOr(json.ret, "success", None)
                      IN  IF Raised(success) THEN End(<<>>, "raise", success.raise)
                          ELSE IF Truthy(success.ret)
                          THEN LET link == DictGetOr(json.ret, "link", None).ret
                               IN  IF ~Truthy(link)
                                   THEN End(<<Msg("error", "invalid link")>>, "break", None)
                                   ELSE IF ~IsStr(link) THEN End(<<>>, "raise", "AttributeError")
                                   ELSE IF StartsWith(link.str, FileIoPrefix)
                                   THEN End(<<Msg("success", "upload succeeded")>>, "return", link)
                                   ELSE End(<<Msg("error", "invalid link")>>, "break", None)
                          ELSE LET status == DictGetOr(json.ret, "status", StrV(<<"?">>)).ret
                                   msgs == <<Msg("error", "upload rejected by server")>>
                               IN  IF status = IntV(429)
                                   THEN More(msgs, "retry after rate limit", "retries exhausted")
                                   ELSE End(msgs, "break", None)
        ELSE LET json == ResponseJson(response)
                 msgs == <<Msg("error", "request failed")>>
                 detail == IF Raised(json) THEN Ret(Msg("error", "error detail"))
                           ELSE IF IsObj(json.ret) THEN Ret(Msg("error", "server error message"))
                           ELSE Raise("AttributeError")
             IN  IF Raised(detail) THEN End(msgs, "raise", detail.raise)
                 ELSE IF response.status \in RetryStatuses /\ RetryAllowed(n, rc)
                 THEN End(msgs \o <<detail.ret, Msg("info", "retry after temporary error")>>,
                          "retry", None)
                 ELSE End(Append(msgs, detail.ret), "break", None)

Link(s) == StrV(FileIoPrefix \o s)

UploadReplies ==
    TransportErrors
    \cup {Html(200), Html(503), Html(400),
          Json(200, Obj([success |-> [bool |-> TRUE], link |-> Link(<<"k">>)])),
          Json(200, Obj([success |-> [bool |-> TRUE],
                         link |-> StrV(<<"h", "t", "t", "p", ":", "/", "/", "f", "/", "k">>)])),
          Json(200, Obj([success |-> [bool |-> FALSE], status |-> IntV(429)])),
          Json(200, Obj([success |-> [bool |-> FALSE], status |-> IntV(400)])),
          Json(200, Obj([success |-> [bool |-> TRUE], link |-> IntV(5)])),
          Json(200, Obj([success |-> [bool |-> TRUE]])),
          Json(200, [list |-> <<>>]),
          Json(503, [list |-> <<>>]),
          Json(413, Obj([message |-> StrV(<<"e">>)]))}

(***************************************************************************)
(* The Streamlit script: one run per press of the button                   *)
(***************************************************************************)

\* The last second the model's clock reaches.
MaxClock == 1

\* Texts of the input box: empty, no BV id, and two with the ids BV1, BV2_.
VideoUrls ==
    {<<>>, <<"x">>, <<"v", "/", "B", "V", "1", "?", "p">>, <<"B", "V", "2", "_">>}

Replies(at) ==
    CASE at = "get_cid" -> ViewReplies
      [] at = "get_wbi_keys" -> NavReplies
      [] at = "get_audio_url" -> PlayurlReplies
      [] at = "download_audio" -> DownloadReplies
      [] at = "upload_to_fileio" -> UploadReplies
      [] OTHER -> {}

UIInit ==
    /\ pc = "idle"
    /\ video_url = <<>>
    /\ bvid = None
    /\ cid = None
    /\ img_key = None
    /\ sub_key = None
    /\ params = None
    /\ audio_url = None
    /\ audio_data = None
    /\ attempt = None
    /\ file_link = None
    /\ inflight = None
    /\ reply = None
    /\ sent = <<>>
    /\ shown = <<>>
    /\ now = 0
    /\ signedAt = None
    /\ lastSign = None
    /\ handled = None

\* requests.get / requests.post called from the function named at.
Send(at, req, displayed) ==
    /\ pc' = at
    /\ inflight' = req
    /\ reply' = None
    /\ sent' = Append(sent, at)
    /\ shown' = displayed

\* The run ends: every branch of the script falls through to its end, and an
\* exception no one catches ends it where it is raised.
Finish(displayed) ==
    /\ pc' = "done"
    /\ inflight' = None
    /\ reply' = None
    /\ sent' = sent
    /\ shown' = displayed

Exception(name) == Msg("exception", name)

\* The button is pressed with url in the input box: the script runs from the
\* top, to the request of get_cid or to its end.
Click(url) ==
    /\ UNCHANGED fnVars
    /\ pc \in {"idle", "done"}
    /\ video_url' = url
    /\ cid' = None
    /\ img_key' = None
    /\ sub_key' = None
    /\ params' = None
    /\ audio_url' = None
    /\ audio_data' = None
    /\ attempt' = None
    /\ file_link' = None
    /\ signedAt' = None
    /\ handled' = None
    /\ UNCHANGED <<now, lastSign>>
    /\ IF url = <<>>
       THEN /\ bvid' = None
            /\ pc' = "done" /\ inflight' = None /\ reply' = None /\ sent' = <<>>
            /\ shown' = <<Msg("error", "enter a valid video link")>>
       ELSE /\ bvid' = extract_bvid(url)
            /\ IF ~Truthy(bvid')
               THEN /\ pc' = "done" /\ inflight' = None /\ reply' = None /\ sent' = <<>>
                    /\ shown' = <<Msg("error", "link format is wrong")>>
               ELSE /\ pc' = "get_cid" /\ inflight' = GetCidRequest(bvid') /\ reply' = None
                    /\ sent' = <<"get_cid">>
                    /\ shown' = <<>>

\* The server, or the network, answers the request in flight.
Respond(r) ==
    /\ UNCHANGED fnVars
    /\ inflight # None
    /\ reply = None
    /\ r \in Replies(pc)
    /\ reply' = r
    /\ UNCHANGED <<pc, video_url, bvid, cid, img_key, sub_key, params, audio_url,
                   audio_data, attempt, file_link, inflight, sent, shown, now, signedAt,
                   lastSign, handled>>

\* The timeout of the request in flight expires: requests raises Timeout. A
\* request sent without a timeout has none to expire.
TimeoutFires ==
    /\ UNCHANGED fnVars
    /\ inflight # None
    /\ reply = None
    /\ inflight.timeout # None
    /\ reply' = [error |-> "Timeout"]
    /\ UNCHANGED <<pc, video_url, bvid, cid, img_key, sub_key, params, audio_url,
                   audio_data, attempt, file_link, inflight, sent, shown, now, signedAt,
                   lastSign, handled>>

\* A second passes.
Tick ==
    /\ UNCHANGED fnVars
    /\ now < MaxClock
    /\ now' = now + 1
    /\ UNCHANGED <<pc, video_url, bvid, cid, img_key, sub_key, params, audio_url,
                   audio_data, attempt, file_link, inflight, reply, sent, shown, signedAt,
                   lastSign, handled>>

\* get_cid returns or raises; with a cid the script calls get_audio_url,
\* which calls get_wbi_keys.
GetCidReturns ==
    /\ UNCHANGED fnVars
    /\ pc = "get_cid"
    /\ reply # None
    /\ handled' = [at |-> pc, reply |-> reply]
    /\ LET r == get_cid(reply)
       IN  IF Raised(r) THEN cid' = None /\ Finish(Append(shown, Exception(r.raise)))
           ELSE /\ cid' = r.ret
                /\ IF ~Truthy(r.ret)
                   THEN Finish(Append(shown, Msg("error", "cannot get video info")))
                   ELSE Send("get_wbi_keys", GetWbiKeysRequest, shown)
    /\ UNCHANGED <<video_url, bvid, img_key, sub_key, params, audio_url, audio_data,
                   attempt, file_link, now, signedAt, lastSign>>

\* get_wbi_keys returns or raises inside get_audio_url, which with two keys
\* samples the clock, signs and sends the playurl request.
GetWbiKeysReturns ==
    /\ UNCHANGED fnVars
    /\ pc = "get_wbi_keys"
    /\ reply # None
    /\ handled' = [at |-> pc, reply |-> reply]
    /\ LET keys == get_wbi_keys(reply)
       IN  IF Raised(keys)
           THEN /\ Finish(Append(shown, Exception(keys.raise)))
                /\ UNCHANGED <<img_key, sub_key, params, signedAt>>
           ELSE IF KeysMissing(keys.ret[1], keys.ret[2])
           THEN /\ Finish(Append(shown, Msg("error", "cannot get audio url")))
                /\ UNCHANGED <<img_key, sub_key, params, signedAt>>
           ELSE /\ img_key' = keys.ret[1]
                /\ sub_key' = keys.ret[2]
                /\ params' = DictV(SignedParams(bvid, cid, SampleClock, keys.ret[1].str,
                                                keys.ret[2].str))
                /\ signedAt' = IntV(now)
                /\ Send("get_audio_url", PlayurlRequest(params'.dict, bvid), shown)
    /\ UNCHANGED <<video_url, bvid, cid, audio_url, audio_data, attempt, file_link, now,
                   lastSign>>

\* The first pass of upload_to_fileio's loop starts, or the function returns
\* None before it: called by the script with the downloaded data and the
\* default arguments.
UploadStarts(data, displayed) ==
    LET enter == upload_enter(DefaultArgs(data))
    IN  IF enter.post
        THEN /\ attempt' = IntV(0)
             /\ Send("upload_to_fileio", UploadRequest, displayed \o enter.msgs)
        ELSE /\ attempt' = None
             /\ Finish((displayed \o enter.msgs) \o <<Msg("error", "upload failed")>>)

\* get_audio_url returns or raises; with a URL the script calls
\* download_audio.
GetAudioUrlReturns ==
    /\ UNCHANGED fnVars
    /\ pc = "get_audio_url"
    /\ reply # None
    /\ handled' = [at |-> pc, reply |-> reply]
    /\ lastSign' = [bvid |-> bvid, cid |-> cid, img_key |-> img_key, sub_key |-> sub_key,
                    wts |-> DictGet(params.dict, <<"w", "t", "s">>), clock |-> signedAt,
                    w_rid |-> DictGet(params.dict, <<"w", "_", "r", "i", "d">>)]
    /\ img_key' = None
    /\ sub_key' = None
    /\ params' = None
    /\ signedAt' = None
    /\ LET r == get_audio_url_result(reply)
       IN  IF Raised(r) THEN audio_url' = None /\ Finish(Append(shown, Exception(r.raise)))
           ELSE /\ audio_url' = r.ret
                /\ IF ~Truthy(r.ret)
                   THEN Finish(Append(shown, Msg("error", "cannot get audio url")))
                   ELSE Send("download_audio", DownloadRequest(r.ret, video_url), shown)
    /\ UNCHANGED <<video_url, bvid, cid, audio_data, attempt, file_link, now>>

\* download_audio returns or raises; with data the script calls
\* upload_to_fileio.
DownloadAudioReturns ==
    /\ UNCHANGED fnVars
    /\ pc = "download_audio"
    /\ reply # None
    /\ handled' = [at |-> pc, reply |-> reply]
    /\ LET r == download_audio(reply)
       IN  IF Raised(r)
           THEN /\ audio_data' = None
                /\ attempt' = None
                /\ Finish(Append(shown, Exception(r.raise)))
           ELSE /\ audio_data' = r.ret
                /\ IF ~Truthy(r.ret)
                   THEN /\ attempt' = None
                        /\ Finish(Append(shown, Msg("error", "audio download failed")))
                   ELSE UploadStarts(r.ret, Append(shown, Msg("info", "audio downloaded")))
    /\ UNCHANGED <<video_url, bvid, cid, img_key, sub_key, params, audio_url, file_link,
                   now, signedAt, lastSign>>

\* How upload_to_fileio ends after a pass that starts no other: the
\* messages it displays last and what it returns or raises. Leaving the loop
\* by break leads to the last two lines of the function.
upload_outcome(a) ==
    CASE a.next = "return" -> [msgs |-> a.msgs, result |-> Ret(a.value)]
      [] a.next = "break" ->
             [msgs |-> Append(a.msgs, Msg("error", "upload finally failed")),
              result |-> Ret(None)]
      [] a.next = "raise" -> [msgs |-> a.msgs, result |-> Raise(a.value)]

\* What the script displays once upload_to_fileio has ended.
AfterUpload(result) ==
    IF Raised(result) THEN <<Exception(result.raise)>>
    ELSE IF Truthy(result.ret)
    THEN <<Msg("success", "audio uploaded"), Msg("markdown", Text(result.ret.str))>>
    ELSE <<Msg("error", "upload failed")>>

\* The arguments of the upload_to_fileio call under way: those of the call
\* made on its own, or the script's call with the downloaded data.
UploadArgsNow == IF fnA = None THEN DefaultArgs(audio_data) ELSE fnA

\* requests.post returns or raises in upload_to_fileio: the pass ends, and
\* the next one starts or the function returns to its caller or raises.
UploadReturns ==
    /\ UNCHANGED <<fnA, fnB, outB>>
    /\ pc = "upload_to_fileio"
    /\ reply # None
    /\ handled' = [at |-> pc, reply |-> reply]
    /\ LET a == upload_attempt(reply, attempt.int, UploadArgsNow.retry_count)
       IN  IF a.next = "retry"
           THEN /\ attempt' = IntV(attempt.int + 1)
                /\ file_link' = None
                /\ outA' = outA
                /\ Send("upload_to_fileio", UploadRequest,
                        (shown \o a.msgs) \o <<Msg("info", "uploading")>>)
           ELSE LET out == upload_outcome(a)
                IN  /\ attempt' = None
                    /\ IF fnA = None
                       THEN /\ file_link' = IF Raised(out.result) THEN None
                                            ELSE out.result.ret
                            /\ outA' = outA
                            /\ Finish((shown \o out.msgs) \o AfterUpload(out.result))
                       ELSE /\ file_link' = None
                            /\ outA' = out.result
                            /\ Finish(shown \o out.msgs)
    /\ UNCHANGED <<video_url, bvid, cid, img_key, sub_key, params, audio_url, audio_data,
                   now, signedAt, lastSign>>

\* upload_to_fileio is called on its own with the arguments fnA: it runs to
\* its first requests.post, or returns None before it.
UploadCalled ==
    /\ pc = "idle"
    /\ fnA # None
    /\ outA = None
    /\ LET enter == upload_enter(fnA)
       IN  IF enter.post
           THEN /\ attempt' = IntV(0)
                /\ outA' = None
                /\ Send("upload_to_fileio", UploadRequest, enter.msgs)
           ELSE /\ attempt' = None
                /\ outA' = Ret(None)
                /\ Finish(enter.msgs)
    /\ UNCHANGED <<fnA, fnB, outB>>
    /\ UNCHANGED <<video_url, bvid, cid, img_key, sub_key, params, audio_url, audio_data,
                   file_link, now, signedAt, lastSign, handled>>

Next ==
    \/ \E url \in VideoUrls : Click(url)
    \/ \E r \in Replies(pc) : Respond(r)
    \/ TimeoutFires
    \/ Tick
    \/ GetCidReturns
    \/ GetWbiKeysReturns
    \/ GetAudioUrlReturns
    \/ DownloadAudioReturns
    \/ UploadReturns

(***************************************************************************)
(* SignSpec: generate_wbi_sign applied to two argument lists drawn from     *)
(* bounded sets.                                                           *)
(***************************************************************************)

\* The most entries of a drawn parameter mapping (the base mapping aside).
MaxParams == 2

ParamKeyPool == {<<"b">>, <<"a", "b">>, <<"B">>, <<"9">>, <<"1", "0">>}
ParamValuePool == {IntV(10), StrV(<<"x", "&", "y", "=", "z">>)}
SignKeyPool == {<<>>, <<"a">>, <<"b">>, <<"a", "b">>}

RECURSIVE PermsOf(_)
PermsOf(S) ==
    IF S = {} THEN {<<>>}
    ELSE UNION {{<<x>> \o p : p \in PermsOf(S \ {x})} : x \in S}

Range(s) == {s[i] : i \in 1..Len(s)}

Mappings ==
    UNION {UNION {PermsOf({<<k, f[k]>> : k \in K}) : f \in [K -> ParamValuePool]} :
           K \in {K \in SUBSET ParamKeyPool : Cardinality(K) <= MaxParams}}

BaseMappings ==
    {BaseParams(StrV(<<"B", "V", "1">>), IntV(12), 17)}

SignInputs ==
    [params : Mappings, img_key : SignKeyPool, sub_key : SignKeyPool]
    \cup [params : BaseMappings, img_key : {<<"a">>, <<"a", "b">>}, sub_key : {<<"b">>}]

\* The second argument list: the first one with its entries inserted in
\* another order, or with one of its keys replaced.
Variants(in) ==
    {[in EXCEPT !.params = p] : p \in PermsOf(Range(in.params))}
    \cup {[in EXCEPT !.img_key = k] : k \in SignKeyPool}
    \cup {[in EXCEPT !.sub_key = k] : k \in SignKeyPool}

SignInit ==
    /\ UIInit
    /\ fnA \in SignInputs
    /\ fnB \in Variants(fnA)
    /\ outA = None
    /\ outB = None

SignA ==
    /\ outA = None
    /\ outA' = SignCall(fnA)
    /\ UNCHANGED <<fnA, fnB, outB>>
    /\ UNCHANGED uiVars

SignB ==
    /\ outB = None
    /\ outB' = SignCall(fnB)
    /\ UNCHANGED <<fnA, fnB, outA>>
    /\ UNCHANGED uiVars

SignNext == SignA \/ SignB

vars == <<uiVars, fnVars>>

SignSpec == SignInit /\ [][SignNext]_vars

(***************************************************************************)
(* Spec: the script, run after run                                         *)
(***************************************************************************)

\* No generate_wbi_sign call is under test beside the script's own.
FnIdle ==
    /\ fnA = None
    /\ fnB = None
    /\ outA = None
    /\ outB = None

Init == UIInit /\ FnIdle

Spec == Init /\ [][Next]_vars

\* The steps in which a call goes on with the reply it has received.
Returns ==
    \/ GetCidReturns
    \/ GetWbiKeysReturns
    \/ GetAudioUrlReturns
    \/ DownloadAudioReturns
    \/ UploadReturns

\* What a step of Returns does to reply, and no other step does: a reply
\* that has arrived is consumed. It can be taken whenever a reply is there.
Resumes == reply # None /\ reply' = None

\* A step consumes a reply exactly when it is a step of Returns.
ResumesIsReturns == [][Resumes <=> Returns]_vars

\* While a reply is there the call it is for is waiting for it.
ResumesIsEnabled ==
    (reply # None) =>
        pc \in {"get_cid", "get_wbi_keys", "get_audio_url", "download_audio",
                "upload_to_fileio"}

\* LiveSpec: the script as the interpreter runs it. A call whose reply has
\* arrived goes on (weak fairness of Returns, stated on Resumes), and a
\* request sent with a timeout gets its Timeout when no reply comes. Nothing
\* obliges the server to answer, the user to press the button, or the clock
\* to be looked at.
LiveSpec ==
    /\ Init
    /\ [][Next]_vars
    /\ WF_reply(Resumes)
    /\ WF_reply(TimeoutFires)

(***************************************************************************)
(* UploadSpec: upload_to_fileio called on its own, with arguments drawn     *)
(* from bounded sets                                                       *)
(***************************************************************************)

\* The largest retry_count drawn.
MaxRetries == 2

UploadData == {[bytes |-> <<>>], [bytes |-> <<1, 2>>]}

\* expires: None, "", "7d", "12h", "d", "7x", "7" and "d7".
UploadExpires ==
    {None, StrV(<<>>), StrV(<<"7", "d">>), StrV(<<"1", "2", "h">>), StrV(<<"d">>),
     StrV(<<"7", "x">>), StrV(<<"7">>), StrV(<<"d", "7">>)}

UploadMaxDownloads ==
    {None, IntV(1), IntV(3), IntV(0), IntV(-1), StrV(<<"1">>), [bool |-> TRUE],
     [bool |-> FALSE]}

UploadArgs ==
    [audio_data : UploadData, expires : UploadExpires,
     max_downloads : UploadMaxDownloads, retry_count : (-1)..MaxRetries]

UploadInit ==
    /\ UIInit
    /\ fnA \in UploadArgs
    /\ fnB = None
    /\ outA = None
    /\ outB = None

UploadNext ==
    \/ UploadCalled
    \/ \E r \in Replies(pc) : Respond(r)
    \/ TimeoutFires
    \/ UploadReturns

UploadSpec == UploadInit /\ [][UploadNext]_vars

\* UploadLiveSpec: the call goes on once a reply has arrived, and the
\* timeout of its request expires when none does.
UploadLiveSpec ==
    /\ UploadInit
    /\ [][UploadNext]_vars
    /\ WF_reply(Resumes)
    /\ WF_reply(TimeoutFires)
    /\ WF_pc(UploadCalled)

(***************************************************************************)
(* Claims on generate_wbi_sign (SignSpec)                                  *)
(***************************************************************************)

SignRuns == {r \in {<<fnA, outA>>, <<fnB, outB>>} : r[2] # None}

\* The entries in ascending key order, stated by rank: an entry's place is
\* one more than the number of entries whose key is smaller.
C1_Ascending(ps) ==
    [i \in 1..Len(ps) |->
        ps[CHOOSE j \in 1..Len(ps) :
                   Cardinality({k \in 1..Len(ps) :
                                   StrLess(ps[k][1], ps[j][1])}) = i - 1]]

RECURSIVE C1_Serialized(_)
C1_Serialized(p) ==
    IF p = <<>> THEN <<>>
    ELSE p[1][1] \o <<"=">> \o Format(p[1][2])
         \o (IF Len(p) > 1 THEN <<"&">> \o C1_Serialized(Tail(p)) ELSE <<>>)

C1_BaseKeys ==
    {<<"b", "v", "i", "d">>, <<"c", "i", "d">>, <<"q", "n">>, <<"f", "n", "v", "e", "r">>,
     <<"f", "n", "v", "a", "l">>, <<"f", "o", "u", "r", "k">>, <<"w", "t", "s">>}

C1_IsBase(ps) ==
    /\ Range(DictKeys(ps)) = C1_BaseKeys
    /\ DictGet(ps, <<"q", "n">>) = IntV(80)
    /\ DictGet(ps, <<"f", "n", "v", "e", "r">>) = IntV(0)
    /\ DictGet(ps, <<"f", "n", "v", "a", "l">>) = IntV(4048)
    /\ DictGet(ps, <<"f", "o", "u", "r", "k">>) = IntV(1)

\* C1: for every parameter mapping and key pair, the string generate_wbi_sign
\* hashes is the entries in ascending lexicographic key order, written
\* key=value and joined by "&" unescaped, then img_key, then sub_key, and
\* w_rid is the MD5 hex digest of it; for the base parameters it reads
\* bvid=..&cid=..&fnval=4048&fnver=0&fourk=1&qn=80&wts=..<img_key><sub_key>.
C1_HashedString ==
    \A r \in SignRuns :
        LET in == r[1]
            expected == C1_Serialized(C1_Ascending(in.params)) \o in.img_key \o in.sub_key
        IN  /\ r[2].hashed = expected
            /\ r[2].w_rid = MD5Hex(Encode(expected))
            /\ C1_IsBase(in.params) =>
                 Text(r[2].hashed) =
                     "bvid=" \o Text(Format(DictGet(in.params, <<"b", "v", "i", "d">>)))
                     \o "&cid=" \o Text(Format(DictGet(in.params, <<"c", "i", "d">>)))
                     \o "&fnval=4048&fnver=0&fourk=1&qn=80&wts="
                     \o Text(Format(DictGet(in.params, <<"w", "t", "s">>)))
                     \o Text(in.img_key) \o Text(in.sub_key)

\* The base parameters in the order of the code, which is not the sorted
\* one, have been signed, and so has a mapping whose values need escaping.
C1_Witness ==
    /\ outA # None
    /\ fnA.params \in BaseMappings
    /\ Text(outA.hashed) = "bvid=BV1&cid=12&fnval=4048&fnver=0&fourk=1&qn=80&wts=17abb"

\* C2: two mappings with the same key/value pairs inserted in different
\* orders, signed with the same key pair, get the same w_rid.
C2_OrderInsensitive ==
    (/\ outA # None
     /\ outB # None
     /\ Range(fnA.params) = Range(fnB.params)
     /\ fnA.img_key = fnB.img_key
     /\ fnA.sub_key = fnB.sub_key)
    => outA.w_rid = outB.w_rid

\* The base parameters were signed in two different insertion orders.
C2_Witness ==
    /\ outA # None
    /\ outB # None
    /\ C1_IsBase(fnA.params)
    /\ Range(fnA.params) = Range(fnB.params)
    /\ fnA.params # fnB.params
    /\ fnB.params[1][1] = <<"w", "t", "s">>

\* C4: replacing img_key alone, or sub_key alone, by a different string
\* changes the string that is hashed, and so w_rid.
C4_KeySensitive ==
    (/\ outA # None
     /\ outB # None
     /\ fnA.params = fnB.params
     /\ \/ fnA.img_key # fnB.img_key /\ fnA.sub_key = fnB.sub_key
        \/ fnA.sub_key # fnB.sub_key /\ fnA.img_key = fnB.img_key)
    => /\ outA.hashed # outB.hashed
       /\ outA.w_rid # outB.w_rid

\* img_key "a" was replaced by "ab" in front of sub_key "b": the unseparated
\* mix keys are "ab" and "abb".
C4_Witness ==
    /\ outA # None
    /\ outB # None
    /\ fnA.params = fnB.params
    /\ fnA.img_key = <<"a">>
    /\ fnB.img_key = <<"a", "b">>
    /\ fnA.sub_key = <<"b">>
    /\ fnB.sub_key = <<"b">>

(***************************************************************************)
(* Claims on the script (Spec)                                             *)
(***************************************************************************)

WtsKey == <<"w", "t", "s">>
WRidKey == <<"w", "_", "r", "i", "d">>

\* The signature of this run has been made and its request is out.
Signed == pc = "get_audio_url"

\* This run signed the same bvid, cid and keys as the call before it.
SameAsLast ==
    /\ Signed
    /\ lastSign # None
    /\ lastSign.bvid = bvid
    /\ lastSign.cid = cid
    /\ lastSign.img_key = img_key
    /\ lastSign.sub_key = sub_key

Decode(bytes) == [i \in 1..Len(bytes) |-> Ascii[bytes[i] - 31]]

\* C5: the parameters sent to playurl are exactly bvid, cid, qn=80, fnver=0,
\* fnval=4048, fourk=1, wts and, last, w_rid, with bvid and cid the arguments,
\* and w_rid is the digest of the seven others alone.
C5_PlayurlParams ==
    Signed =>
        /\ inflight.url = "https://api.bilibili.com/x/player/wbi/playurl"
        /\ DictKeys(inflight.params.dict)
             = << <<"b", "v", "i", "d">>, <<"c", "i", "d">>, <<"q", "n">>,
                  <<"f", "n", "v", "e", "r">>, <<"f", "n", "v", "a", "l">>,
                  <<"f", "o", "u", "r", "k">>, WtsKey, WRidKey >>
        /\ DictGet(inflight.params.dict, <<"b", "v", "i", "d">>) = bvid
        /\ DictGet(inflight.params.dict, <<"c", "i", "d">>) = cid
        /\ DictGet(inflight.params.dict, <<"q", "n">>) = IntV(80)
        /\ DictGet(inflight.params.dict, <<"f", "n", "v", "e", "r">>) = IntV(0)
        /\ DictGet(inflight.params.dict, <<"f", "n", "v", "a", "l">>) = IntV(4048)
        /\ DictGet(inflight.params.dict, <<"f", "o", "u", "r", "k">>) = IntV(1)
        /\ Text(Decode(DictGet(inflight.params.dict, WRidKey).md5))
             = "bvid=" \o Text(bvid.str) \o "&cid=" \o Text(Format(cid))
               \o "&fnval=4048&fnver=0&fourk=1&qn=80&wts="
               \o Text(Format(DictGet(inflight.params.dict, WtsKey)))
               \o Text(img_key.str) \o Text(sub_key.str)

\* The request for BV2_, cid 7 is out, signed with the keys "ab" and "a".
C5_Witness ==
    /\ Signed
    /\ inflight.params = params
    /\ Text(bvid.str) = "BV2_"
    /\ cid = IntV(7)
    /\ Text(img_key.str) = "ab"
    /\ Text(sub_key.str) = "a"

\* C6: every signing samples the clock: the wts of a call is the clock at
\* that call, so a call one second after a call with the same bvid, cid and
\* keys gets a different w_rid.
C6_ClockSampled ==
    Signed =>
        /\ DictGet(params.dict, WtsKey) = signedAt
        /\ (SameAsLast /\ signedAt.int = lastSign.clock.int + 1)
             => DictGet(params.dict, WRidKey) # lastSign.w_rid

\* Two runs in a row signed the same inputs one second apart.
C6_Witness ==
    /\ SameAsLast
    /\ lastSign.clock = IntV(0)
    /\ signedAt = IntV(1)

\* The message the run displayed last.
LastShown == shown[Len(shown)]

\* The reply of the call named at has been handled, and none after it.
Handled(at) == handled # None /\ handled.at = at

\* What the Key Fetcher yields lacks a key or holds an empty one.
C7_NoKeyPair(response) ==
    LET keys == get_wbi_keys(response)
    IN  \/ Raised(keys)
        \/ keys.ret[1] \in {None, StrV(<<>>)}
        \/ keys.ret[2] \in {None, StrV(<<>>)}

\* C7: when the Key Fetcher yields an empty or missing img_key or sub_key the
\* chain fails: get_audio_url returns no URL, nothing is signed, nothing is
\* requested of playurl, nothing is downloaded and nothing uploaded.
C7_NoKeysNoChain ==
    (Handled("get_wbi_keys") /\ C7_NoKeyPair(handled.reply))
    => /\ pc = "done"
       /\ audio_url = None
       /\ params = None
       /\ signedAt = None
       /\ sent = <<"get_cid", "get_wbi_keys">>
       /\ audio_data = None
       /\ file_link = None
       /\ LastShown.kind \in {"error", "exception"}

\* The Key Fetcher answered with an img_url whose stem is empty and a
\* sub_url whose stem is "a", and the run has ended.
C7_Witness ==
    /\ Handled("get_wbi_keys")
    /\ get_wbi_keys(handled.reply) = Ret(<<StrV(<<>>), StrV(<<"a">>)>>)
    /\ pc = "done"
    /\ LastShown = Msg("error", "cannot get audio url")

\* Whether the fields named by path follow each other in the JSON value.
RECURSIVE C8_HasPath(_, _)
C8_HasPath(v, path) ==
    IF path = <<>> THEN TRUE
    ELSE IF DOMAIN Head(path) = {"idx"}
    THEN /\ IsList(v)
         /\ Head(path).idx < Len(v.list)
         /\ C8_HasPath(v.list[Head(path).idx + 1], Tail(path))
    ELSE /\ IsObj(v)
         /\ Head(path).key \in DOMAIN v.obj
         /\ C8_HasPath(v.obj[Head(path).key], Tail(path))

C8_Expected(at) ==
    CASE at = "get_cid" -> {<<Key("data"), Key("cid")>>}
      [] at = "get_wbi_keys" -> {<<Key("data"), Key("wbi_img"), Key("img_url")>>,
                                 <<Key("data"), Key("wbi_img"), Key("sub_url")>>}
      [] at = "get_audio_url" -> {<<Key("data"), Key("dash"), Key("audio"), Idx(0),
                                    Key("baseUrl")>>}
      [] OTHER -> {}

\* An HTTP 200 answer whose JSON lacks a field the call reads.
C8_LacksField(at, response) ==
    /\ ~IsError(response)
    /\ response.status = 200
    /\ DOMAIN response.body = {"json"}
    /\ \E path \in C8_Expected(at) : ~C8_HasPath(response.body.json, path)

C8_LookupErrors == {Exception("KeyError"), Exception("TypeError"), Exception("IndexError")}

\* C8: an HTTP 200 answer that lacks an expected field is a hard failure: the
\* call raises a lookup error that ends the run at that step, no later
\* request is sent, and no key, cid or URL stands in for the missing value.
C8_MalformedIsHardFailure ==
    (handled # None /\ C8_LacksField(handled.at, handled.reply))
    => /\ pc = "done"
       /\ LastShown \in C8_LookupErrors
       /\ sent[Len(sent)] = handled.at
       /\ img_key = None /\ sub_key = None /\ params = None
       /\ audio_url = None
       /\ handled.at = "get_cid" => cid = None

\* The Key Fetcher answered 200 with JSON that has data but no wbi_img.
C8_Witness ==
    /\ Handled("get_wbi_keys")
    /\ C8_LacksField("get_wbi_keys", handled.reply)
    /\ C8_HasPath(handled.reply.body.json, <<Key("data")>>)
    /\ ~C8_HasPath(handled.reply.body.json, <<Key("data"), Key("wbi_img")>>)
    /\ pc = "done"
    /\ LastShown = Exception("KeyError")

\* An HTTP 200 answer with a non-zero code in its JSON body.
C9_Rejected(response) ==
    /\ ~IsError(response)
    /\ response.status = 200
    /\ DOMAIN response.body = {"json"}
    /\ C8_HasPath(response.body.json, <<Key("code")>>)
    /\ response.body.json.obj.code # IntV(0)

\* What the run displays last when get_audio_url ends it on this answer.
C9_Outcome(response) ==
    LET r == get_audio_url_result(response)
    IN  IF Raised(r) THEN Exception(r.raise) ELSE Msg("error", "cannot get audio url")

C9_MalformedOutcomes ==
    {C9_Outcome(r) : r \in {r \in PlayurlReplies :
                               C8_LacksField("get_audio_url", r) /\ ~C9_Rejected(r)}}

C9_TransportOutcomes == {C9_Outcome(r) : r \in TransportErrors}

\* C9: a playurl answer with HTTP 200 and a non-zero code ends the run in a
\* failure of its own, "signature rejected", that is neither the outcome of
\* a transport failure nor the outcome of a malformed answer.
C9_RejectionDistinct ==
    (Handled("get_audio_url") /\ C9_Rejected(handled.reply))
    => /\ pc = "done"
       /\ LastShown.kind \in {"error", "exception"}
       /\ LastShown \notin C9_MalformedOutcomes
       /\ LastShown \notin C9_TransportOutcomes

\* The three calls that fetch JSON from the API.
C10_Calls == {"get_cid", "get_wbi_keys", "get_audio_url"}

\* C10: each of get_cid, get_wbi_keys and get_audio_url ends, with a value or
\* a failure, whatever the server does, a server that never answers
\* included: a call that has sent its request is eventually left.
C10_CallsTerminate ==
    \A at \in C10_Calls : (pc = at) ~> (pc # at)

\* upload_to_fileio, whose request carries timeout=30, does end on a server
\* that never answers.
C10_UploadTerminates ==
    (pc = "upload_to_fileio") ~> (pc = "done")

\* How many requests the call named at has sent in this run.
C11_Requests(at) == Cardinality({i \in 1..Len(sent) : sent[i] = at})

\* C11: a transport failure in get_wbi_keys, get_cid or get_audio_url is
\* surfaced and never retried: in one run each of the three endpoints gets
\* at most one request, and a transport error on one of them ends the run
\* there with that error displayed.
C11_TransportSurfaced ==
    /\ \A at \in C10_Calls : C11_Requests(at) <= 1
    /\ (handled # None /\ handled.at \in C10_Calls /\ IsError(handled.reply))
         => /\ pc = "done"
            /\ LastShown = Exception(handled.reply.error)
            /\ sent[Len(sent)] = handled.at

\* The nav request of a run failed in transport and the run has ended.
C11_Witness ==
    /\ Handled("get_wbi_keys")
    /\ IsError(handled.reply)
    /\ pc = "done"
    /\ sent = <<"get_cid", "get_wbi_keys">>
    /\ LastShown = Exception("ConnectionError")

\* The stem of the file a URL names: what stands after its last "/" up to
\* the first "." behind that.
C12_Stem(url) ==
    LET slash == CHOOSE i \in 0..Len(url) :
                     /\ i = 0 \/ url[i] = "/"
                     /\ \A j \in (i + 1)..Len(url) : url[j] # "/"
        dot == CHOOSE i \in (slash + 1)..(Len(url) + 1) :
                   /\ i = Len(url) + 1 \/ url[i] = "."
                   /\ \A j \in (slash + 1)..(i - 1) : url[j] # "."
    IN  SubSeq(url, slash + 1, dot - 1)

\* The str at data.wbi_img[k] of the nav answer handled last; None for an
\* answer that has no str there.
C12_NavUrl(k) ==
    LET r == handled.reply
        At(v, f) == IF v # None /\ DOMAIN v = {"obj"} /\ f \in DOMAIN v.obj THEN v.obj[f]
                    ELSE None
        body == IF DOMAIN r = {"error"} \/ DOMAIN r.body # {"json"} THEN None
                ELSE r.body.json
        url == At(At(At(body, "data"), "wbi_img"), k)
    IN  IF url # None /\ DOMAIN url = {"str"} THEN url ELSE None

\* C12: keys are fetched anew for every signing: a call that has signed sent
\* its own nav request first, after it the playurl request, and the keys in
\* its signature are the stems of the URLs in the answer to that nav
\* request, not those of an earlier call.
C12_FreshKeys ==
    Signed =>
        /\ sent = <<"get_cid", "get_wbi_keys", "get_audio_url">>
        /\ Handled("get_wbi_keys")
        /\ C12_NavUrl("img_url") # None
        /\ C12_NavUrl("sub_url") # None
        /\ img_key = StrV(C12_Stem(C12_NavUrl("img_url").str))
        /\ sub_key = StrV(C12_Stem(C12_NavUrl("sub_url").str))
        /\ LET hashed == Decode(DictGet(inflight.params.dict, WRidKey).md5)
               keys == C12_Stem(C12_NavUrl("img_url").str)
                           \o C12_Stem(C12_NavUrl("sub_url").str)
           IN  /\ Len(hashed) >= Len(keys)
               /\ SubSeq(hashed, Len(hashed) - Len(keys) + 1, Len(hashed)) = keys

\* A second call signed with keys that differ from those of the call
\* before it.
C12_Witness ==
    /\ Signed
    /\ lastSign # None
    /\ lastSign.img_key = StrV(<<"a">>)
    /\ img_key = StrV(<<"a", "b">>)
    /\ lastSign.sub_key # sub_key

UploadEnded == fnA # None /\ outA # None

\* How many POST requests the call has sent.
Posts == Cardinality({i \in 1..Len(sent) : sent[i] = "upload_to_fileio"})

\* An answer with HTTP status 200, JSON success true and a link that
\* starts with https://file.io/.
C14_Success(response) ==
    /\ ~IsError(response)
    /\ response.status = 200
    /\ DOMAIN response.body = {"json"}
    /\ IsObj(response.body.json)
    /\ {"success", "link"} \subseteq DOMAIN response.body.json.obj
    /\ response.body.json.obj.success = [bool |-> TRUE]
    /\ IsStr(response.body.json.obj.link)
    /\ StartsWith(response.body.json.obj.link.str, FileIoPrefix)

\* C14: upload_to_fileio returns a link only on success and None on every
\* failure: when the answer handled last is a success the call returns its
\* link, at that attempt, and every other call returns None.
C14_LinkOrNone ==
    UploadEnded =>
        IF Handled("upload_to_fileio") /\ C14_Success(handled.reply)
        THEN outA = Ret(handled.reply.body.json.obj.link)
        ELSE outA = Ret(None)

\* The half of C14 that holds: a call that does not end with None or an
\* exception returns the link of a success answer.
C14_LinkOnlyOnSuccess ==
    (UploadEnded /\ outA \notin {Ret(None), Raise("AttributeError")})
    => /\ Handled("upload_to_fileio")
       /\ C14_Success(handled.reply)
       /\ outA = Ret(handled.reply.body.json.obj.link)

\* A str of one or more decimal digits followed by one of the unit letters.
C15_TimePeriod(s) ==
    /\ Len(s) >= 2
    /\ \A i \in 1..(Len(s) - 1) : \E d \in 1..Len(Digits) : s[i] = Digits[d]
    /\ s[Len(s)] \in {"y", "Q", "M", "w", "d", "h", "m", "s"}

\* Arguments that the pre-request validation is to refuse: empty data, a
\* non-empty expires that is no time period, or a max_downloads that is not
\* a positive integer (True counts as the integer 1, as it does in Python).
C15_Invalid(args) ==
    \/ args.audio_data.bytes = <<>>
    \/ args.expires # None /\ args.expires.str # <<>> /\ ~C15_TimePeriod(args.expires.str)
    \/ /\ args.max_downloads # None
       /\ args.max_downloads \notin {IntV(n) : n \in 1..5} \cup {[bool |-> TRUE]}

\* C15: with empty audio_data, a non-empty expires that is not digits
\* followed by a unit, or a max_downloads that is not a positive integer,
\* upload_to_fileio returns None and sends no POST request.
C15_InvalidNoRequest ==
    (fnA # None /\ pc # "idle" /\ C15_Invalid(fnA))
    => /\ pc = "done"
       /\ outA = Ret(None)
       /\ sent = <<>>
       /\ inflight = None
       /\ LastShown.kind = "error"

\* A call with data, expires "7x" and no max_downloads has returned.
C15_Witness ==
    /\ UploadEnded
    /\ fnA.audio_data.bytes # <<>>
    /\ fnA.expires = StrV(<<"7", "x">>)
    /\ fnA.max_downloads = None
    /\ fnA.retry_count = 2
    /\ outA = Ret(None)
    /\ sent = <<>>

\* A call of upload_to_fileio that the checks before the loop accept, with
\* a retry_count that is not negative.
C16_Accepted == fnA # None /\ ~C15_Invalid(fnA) /\ fnA.retry_count >= 0

\* While a request is out, it is the request of pass attempt of
\* range(retry_count + 1) and attempt + 1 requests were sent; once the call
\* has ended, between 1 and retry_count + 1 were.
C16_BoundedPosts ==
    C16_Accepted
    => /\ Posts <= fnA.retry_count + 1
       /\ pc = "upload_to_fileio"
          => /\ attempt \in {IntV(n) : n \in 0..fnA.retry_count}
             /\ Posts = attempt.int + 1
       /\ pc = "done" => (outA # None /\ attempt = None /\ Posts >= 1)
       /\ pc \in {"idle", "upload_to_fileio", "done"}

\* Every call of upload_to_fileio ends, whatever arrives and whenever.
C16_Ends == (fnA # None /\ outA = None) ~> (outA # None)

\* C16: retry_count is the number of retries: for every retry_count >= 0
\* and every sequence of server responses and network errors, a call of
\* upload_to_fileio (with arguments that pass its checks) sends at least one
\* and at most retry_count + 1 POST requests, and then ends: it never loops
\* without bound.
C16_RetryBound == []C16_BoundedPosts /\ C16_Ends

\* A call with retry_count = 2 has ended after three POST requests.
C16_Witness ==
    /\ UploadEnded
    /\ C16_Accepted
    /\ fnA.retry_count = 2
    /\ Posts = 3
    /\ outA = Ret(None)

\* The JSON object of an answer with status 200, or None.
C17_Object(response) ==
    IF /\ DOMAIN response # {"error"}
       /\ response.status = 200
       /\ DOMAIN response.body = {"json"}
       /\ DOMAIN response.body.json = {"obj"}
    THEN response.body.json
    ELSE None

\* A 200 JSON answer that reports success (true) or a rejection (false or
\* no success field).
C17_Reports(response, success) ==
    /\ C17_Object(response) # None
    /\ ("success" \in DOMAIN C17_Object(response).obj
        /\ C17_Object(response).obj.success = [bool |-> TRUE]) <=> success

\* The attempt that received this answer ended in a temporary error: a
\* network exception, a status in {429, 500, 502, 503, 504}, a 200 answer
\* that is not JSON, or a 200 JSON rejection whose status field is 429.
C17_Temporary(response) ==
    \/ DOMAIN response = {"error"}
    \/ /\ DOMAIN response # {"error"}
       /\ \/ response.status \in {429, 500, 502, 503, 504}
          \/ response.status = 200 /\ DOMAIN response.body # {"json"}
          \/ /\ C17_Reports(response, FALSE)
             /\ "status" \in DOMAIN C17_Object(response).obj
             /\ C17_Object(response).obj.status = IntV(429)

\* The attempt ended in a permanent error: another status than 200 and the
\* temporary ones, a JSON rejection with another status, or a success
\* answer with an invalid link.
C17_Permanent(response) ==
    /\ DOMAIN response # {"error"}
    /\ \/ response.status \notin {200, 429, 500, 502, 503, 504}
       \/ /\ C17_Reports(response, FALSE)
          /\ "status" \in DOMAIN C17_Object(response).obj
             => C17_Object(response).obj.status # IntV(429)
       \/ /\ C17_Reports(response, TRUE)
          /\ "link" \in DOMAIN C17_Object(response).obj
             => \/ DOMAIN C17_Object(response).obj.link # {"str"}
                \/ ~StartsWith(C17_Object(response).obj.link.str, FileIoPrefix)

C17_PermanentSeen ==
    /\ UploadEnded
    /\ Handled("upload_to_fileio")
    /\ handled.reply = Json(413, Obj([message |-> StrV(<<"e">>)]))
    /\ fnA.retry_count = 2
    /\ Posts = 1

(***************************************************************************)
(* Claims on the order of the stages (Spec)                                *)
(***************************************************************************)

\* The requests of a run, in the order of its stages.
C18_Stages == <<"get_cid", "get_wbi_keys", "get_audio_url", "download_audio">>

\* The stage has sent its request in this run.
C18_Reached(at) == \E i \in 1..Len(sent) : sent[i] = at

\* A bvid extracted from the input: BV and at least one more character,
\* standing in the text of the input box.
C18_BvidExtracted ==
    /\ bvid # None
    /\ Len(bvid.str) > 2
    /\ bvid.str[1] = "B"
    /\ bvid.str[2] = "V"
    /\ \E k \in 0..Len(video_url) :
           /\ k + Len(bvid.str) <= Len(video_url)
           /\ \A i \in 1..Len(bvid.str) : video_url[k + i] = bvid.str[i]

\* Neither None nor an empty or zero value.
C18_NonEmpty(v) ==
    v \notin {None, IntV(0), StrV(<<>>), [bytes |-> <<>>], [bool |-> FALSE]}

\* The last message of the run reports a failure.
C18_Failed == pc = "done" /\ shown # <<>> /\ LastShown.kind \in {"error", "exception"}

\* C18: the UI flow runs its stages strictly in order and stops at the first
\* failure: the view request is sent only after a bvid was extracted from
\* the input, the key fetch and the playurl request only after a non-empty
\* cid, the media download only after an audio URL, the upload only after
\* non-empty downloaded data, and the success message with the link is
\* shown only when upload_to_fileio returned a link; after a stage has
\* reported failure no later stage sends a request.
C18_StagesInOrder ==
    (fnA = None)
    => /\ \A i \in 1..Len(sent) :
              sent[i] = IF i <= 4 THEN C18_Stages[i] ELSE "upload_to_fileio"
       /\ C18_Reached("get_cid") => C18_BvidExtracted
       /\ C18_Reached("get_wbi_keys") => C18_NonEmpty(cid)
       /\ C18_Reached("get_audio_url") => (C18_NonEmpty(cid) /\ C18_Reached("get_wbi_keys"))
       /\ C18_Reached("download_audio") => (C18_NonEmpty(audio_url) /\ IsStr(audio_url))
       /\ C18_Reached("upload_to_fileio")
          => (C18_NonEmpty(audio_data) /\ DOMAIN audio_data = {"bytes"})
       /\ (\E i \in 1..Len(shown) : shown[i].kind \in {"success", "markdown"})
          => /\ pc = "done"
             /\ C18_Reached("upload_to_fileio")
             /\ file_link # None
             /\ IsStr(file_link)
             /\ StartsWith(file_link.str, FileIoPrefix)
             /\ LastShown = Msg("markdown", Text(file_link.str))
       /\ C18_Failed
          => /\ inflight = None
             /\ file_link = None
             /\ IF handled = None THEN sent = <<>>
                ELSE sent # <<>> /\ sent[Len(sent)] = handled.at

\* A run has stopped at the download, which brought no data: four requests
\* were sent and none to file.io.
C18_Witness ==
    /\ fnA = None
    /\ C18_Failed
    /\ sent = C18_Stages
    /\ Handled("download_audio")
    /\ audio_data = [bytes |-> <<>>]
    /\ LastShown = Msg("error", "audio download failed")

\* A run has shown the link that upload_to_fileio returned.
C18_LinkShown ==
    /\ fnA = None
    /\ pc = "done"
    /\ file_link = Link(<<"k">>)
    /\ Len(sent) = 6
    /\ LastShown = Msg("markdown", Text(file_link.str))

====
